---- MODULE Spec2Model ----
(***************************************************************************)
(* Retail Orders Dashboard (src/streamlit_app.py).                         *)
(*                                                                         *)
(* The script is re-executed from top to bottom on every user interaction. *)
(* The two memoized functions (get_collection, load_orders) keep           *)
(* process-wide caches across the re-runs; everything else is per run.     *)
(*                                                                         *)
(* Optional values (Python None, pandas NaN/NaT) are <<>>; a present value *)
(* v is <<v>>.  Documents are functions from field names to values, with   *)
(* the absent fields left out of the domain, so that dict.get is modelled  *)
(* by what it does.  Text that is sorted or joined is a sequence of code   *)
(* points.                                                                 *)
(***************************************************************************)
EXTENDS Integers, Sequences, FiniteSets, TLC

VARIABLES
    MONGO_URI, DB_NAME, COLL_NAME,  \* configuration read by each run
    database,                       \* the documents behind each collection
    cache_resource,                 \* st.cache_resource store of get_collection
    cache_data,                     \* st.cache_data store of load_orders
    attempted,                      \* keys for which MongoClient(...) was called
    opened,                         \* successful MongoClient(...) calls per key
    loaded,                         \* handles whose query result was cached
    lastLoadQueried,                \* did the last load_orders call run the query
    pc,                             \* position of the running script
    coll, docs, df, exc,            \* script locals of the current run
    ui,                             \* what the current run has rendered
    date_range, region, channel, loyalty, age, show_table,
    f, heat

vars == <<MONGO_URI, DB_NAME, COLL_NAME, database, cache_resource, cache_data,
          attempted, opened, loaded, lastLoadQueried, pc, coll, docs, df, exc,
          ui, date_range, region, channel, loyalty, age, show_table, f, heat>>

config == <<MONGO_URI, DB_NAME, COLL_NAME>>
caches == <<cache_resource, cache_data, attempted, opened, loaded, lastLoadQueried>>
widgets == <<date_range, region, channel, loyalty, age, show_table>>

----------------------------------------------------------------------------
(* Bounds *)

MaxOpens == 2       \* cap on counted MongoClient creations per key
MaxDocs == 2        \* documents in a drawn query result
MaxDocItems == 1    \* line items per document in a drawn multi-document result
MaxItems == 3       \* line items in a drawn single-document result
MaxDay == 1         \* days 0..MaxDay carry purchase timestamps
MaxHeatRows == 2    \* rows of a drawn subset for the weekday/hour table

SecondsPerDay == 86400

----------------------------------------------------------------------------
(* Optional values and dictionaries *)

None == <<>>
Some(v) == <<v>>

EmptyDict == <<>>

\* dict.get(k): the value, or None when the key is absent
Get(d, k) == IF k \in DOMAIN d THEN Some(d[k]) ELSE None

\* dict.get(k, default)
GetOr(d, k, default) == IF k \in DOMAIN d THEN d[k] ELSE default

\* a one-field dictionary when the optional value is present, else no field
Opt(k, o) == IF o = None THEN EmptyDict ELSE (k :> o[1])

----------------------------------------------------------------------------
(* Text as code points *)

Comma == <<44>>
Hat == <<72, 97, 116>>
Hats == <<72, 97, 116, 115>>
Shoes == <<83, 104, 111, 101, 115>>
apple == <<97, 112, 112, 108, 101>>
EmptyStr == <<>>

Min2(a, b) == IF a < b THEN a ELSE b

\* Python's str.__lt__: lexicographic on code points, a proper prefix first
StrLess(a, b) ==
    \E i \in 1..(Min2(Len(a), Len(b)) + 1) :
        /\ \A j \in 1..(i - 1) : a[j] = b[j]
        /\ \/ i > Len(a) /\ i <= Len(b)
           \/ i <= Len(a) /\ i <= Len(b) /\ a[i] < b[i]

StrMin(S) == CHOOSE a \in S : \A b \in S \ {a} : StrLess(a, b)

StrMax(S) == CHOOSE a \in S : \A b \in S \ {a} : StrLess(b, a)

RECURSIVE sorted_desc(_)
\* the list in descending order
sorted_desc(S) == IF S = {} THEN <<>>
                  ELSE LET m == StrMax(S) IN <<m>> \o sorted_desc(S \ {m})

RECURSIVE sorted(_)
\* sorted(set of str): ascending list
sorted(S) == IF S = {} THEN <<>>
             ELSE LET m == StrMin(S) IN <<m>> \o sorted(S \ {m})

RECURSIVE join(_, _)
\* sep.join(list of str)
join(sep, parts) ==
    IF Len(parts) = 0 THEN EmptyStr
    ELSE IF Len(parts) = 1 THEN parts[1]
    ELSE parts[1] \o sep \o join(sep, Tail(parts))

RECURSIVE sum(_)
\* sum of a list of integers
sum(s) == IF Len(s) = 0 THEN 0 ELSE Head(s) + sum(Tail(s))

----------------------------------------------------------------------------
(* load_orders: flattening *)

\* str(d.get("_id"))
str(o) == IF o = None THEN <<"None">> ELSE <<"str", o[1]>>

\* pd.to_datetime(..., errors="coerce") of one cell: an invalid or missing
\* value becomes NaT
to_datetime(o) == IF o /= None /\ o[1].ok THEN Some(o[1].t) ELSE None

item_quantities(items) == [i \in 1..Len(items) |-> GetOr(items[i], "quantity", 0)]

item_categories(items) == {GetOr(items[i], "category", EmptyStr) : i \in 1..Len(items)}

\* the row appended for one document
FlattenDoc(d) ==
    LET items == GetOr(d, "items", <<>>) IN
    [ order_id |-> str(Get(d, "_id")),
      purchase_ts |-> to_datetime(Get(d, "purchase_ts")),
      purchase_date |-> Get(d, "purchase_date"),
      purchase_time |-> Get(d, "purchase_time"),
      weekday |-> Get(d, "weekday"),
      hour |-> Get(d, "hour"),
      store_city |-> Get(GetOr(d, "store", EmptyDict), "store_city"),
      region |-> Get(GetOr(d, "store", EmptyDict), "region"),
      channel |-> Get(d, "channel"),
      payment_method |-> Get(d, "payment_method"),
      loyalty_member |-> Get(GetOr(d, "customer", EmptyDict), "loyalty_member"),
      age_band |-> Get(GetOr(d, "customer", EmptyDict), "age_band"),
      coupon_used |-> Get(d, "coupon_used"),
      discount_pct |-> Get(d, "discount_pct"),
      subtotal |-> Get(d, "subtotal"),
      discount_amount |-> Get(d, "discount_amount"),
      tax_amount |-> Get(d, "tax_amount"),
      shipping_amount |-> Get(d, "shipping_amount"),
      total_amount |-> Get(d, "total_amount"),
      num_items |-> sum(item_quantities(items)),
      categories |-> join(Comma, sorted(item_categories(items))) ]

\* documents without line items are skipped
load_orders_skip_itemless(ds) ==
    LET kept == SelectSeq(ds, LAMBDA d : "items" \in DOMAIN d)
    IN [i \in 1..Len(kept) |-> FlattenDoc(kept[i])]

\* the dataset load_orders builds from the query result
load_orders(ds) ==
    IF Len(ds) = 0 THEN <<>>
    ELSE [i \in 1..Len(ds) |-> FlattenDoc(ds[i])]

\* DataFrame.empty
empty(frame) == Len(frame) = 0

----------------------------------------------------------------------------
(* Filter layer *)

\* pd.to_datetime(date): midnight of that day, in seconds
date_to_ts(d) == d * SecondsPerDay

\* Timestamp.date()
date_of(t) == t \div SecondsPerDay

\* the end bound compared with <= instead of <
date_mask_closed_end(ts, start, end) == ts /= None /\ ts[1] >= start /\ ts[1] <= end

\* (df["purchase_ts"] >= start) & (df["purchase_ts"] < end) for one row;
\* a comparison with NaT is False
date_mask(ts, start, end) == ts /= None /\ ts[1] >= start /\ ts[1] < end

\* Series.isin(values) for one cell; a null cell is in no list of values
isin(cell, values) == cell /= None /\ cell[1] \in values

\* the region filter applied even when nothing is selected
mask_always_region(r, dr, reg, chan, loy, ag) ==
    LET start == date_to_ts(dr[1])
        end == date_to_ts(dr[2]) + SecondsPerDay
    IN /\ date_mask(r.purchase_ts, start, end)
       /\ isin(r.region, reg)
       /\ (chan /= {} => isin(r.channel, chan))
       /\ (loy /= {} => isin(r.loyalty_member, loy))
       /\ (ag /= {} => isin(r.age_band, ag))

\* the mask of one row
mask(r, dr, reg, chan, loy, ag) ==
    LET start == date_to_ts(dr[1])
        end == date_to_ts(dr[2]) + SecondsPerDay
    IN /\ date_mask(r.purchase_ts, start, end)
       /\ (reg /= {} => isin(r.region, reg))
       /\ (chan /= {} => isin(r.channel, chan))
       /\ (loy /= {} => isin(r.loyalty_member, loy))
       /\ (ag /= {} => isin(r.age_band, ag))

\* df[mask]
select(frame, dr, reg, chan, loy, ag) ==
    SelectSeq(frame, LAMBDA r : mask(r, dr, reg, chan, loy, ag))

\* Series.dropna().unique() of one column
unique(frame, col) ==
    {frame[i][col][1] : i \in {j \in 1..Len(frame) : frame[j][col] /= None}}

SetMin(S) == CHOOSE x \in S : \A y \in S : x <= y
SetMax(S) == CHOOSE x \in S : \A y \in S : x >= y

----------------------------------------------------------------------------
(* Weekday/hour table *)

wd_order == <<"Monday", "Tuesday", "Wednesday", "Thursday", "Friday",
              "Saturday", "Sunday">>

nan0(o) == IF o = None THEN 0 ELSE o[1]

\* the summed total_amount of one weekday/hour group (NaN skipped)
group_sum(rows, w, h) ==
    LET g == SelectSeq(rows, LAMBDA r : r.weekday = Some(w) /\ r.hour = Some(h))
    IN sum([i \in 1..Len(g) |-> nan0(g[i].total_amount)])

\* f.pivot_table(index="weekday", columns="hour", values="total_amount",
\* aggfunc="sum"): rows with a null key are dropped, a weekday/hour pair
\* with no row is NaN
pivot_table(rows) ==
    LET keyed == SelectSeq(rows, LAMBDA r : r.weekday /= None /\ r.hour /= None)
        idx == {keyed[i].weekday[1] : i \in 1..Len(keyed)}
        cols == {keyed[i].hour[1] : i \in 1..Len(keyed)}
    IN [ index |-> idx,
         columns |-> cols,
         cell |-> [w \in idx |-> [h \in cols |->
                    IF \E i \in 1..Len(keyed) :
                          keyed[i].weekday[1] = w /\ keyed[i].hour[1] = h
                    THEN Some(group_sum(keyed, w, h)) ELSE None]] ]

\* DataFrame.fillna(v)
fillna(t, v) ==
    [t EXCEPT !.cell = [w \in t.index |-> [h \in t.columns |->
                          IF t.cell[w][h] = None THEN Some(v) ELSE t.cell[w][h]]]]

Range(s) == {s[i] : i \in 1..Len(s)}

\* DataFrame.reindex(labels): the rows in the order of labels; a label the
\* table does not have gets a row of NaN, a row not among labels is dropped
reindex(t, labels) ==
    [ index |-> labels,
      columns |-> t.columns,
      cell |-> [w \in Range(labels) |-> [h \in t.columns |->
                 IF w \in t.index THEN t.cell[w][h] ELSE None]] ]

\* lines 151-153
heat_table(rows) == reindex(fillna(pivot_table(rows), 0), wd_order)

----------------------------------------------------------------------------
(* Configuration, handles, rendered elements *)

URIs == {"", "mongodb://a"}
DBNames == {"retail"}
CollNames == {"orders", "archive"}

ConnKeys == URIs \X DBNames \X CollNames
OpenKeys == {k \in ConnKeys : k[1] /= ""}
Handles == [key : OpenKeys, id : 1..MaxOpens]

K0 == <<"mongodb://a", "retail", "orders">>
H0 == [key |-> K0, id |-> 1]

Element(kind, text) == [kind |-> kind, text |-> text]

Title == Element("title", <<"Retail Orders Dashboard">>)
ErrorBox(e) == Element("error", <<"Database connection failed: ">> \o e)
WarningBox == Element("warning",
    <<"No orders found. Import data into your collection and refresh.">>)
ExceptionBox(e) == Element("exception", e)
Filters == Element("filters", <<"Filters">>)
Metrics == Element("metrics", <<"Orders", "Revenue", "Avg Order Value", "Avg Discount %">>)
Charts == Element("charts", <<"Revenue Over Time (Daily)", "Revenue by Region",
    "Revenue by Channel", "AOV by Loyalty", "Avg Discount % by Channel">>)
HeatBox == Element("table", <<"Revenue by Weekday & Hour (table)">>)
RawBox == Element("table", <<"Raw Orders (Filtered)">>)

UriNotSet == <<"MONGO_URI is not set. Add it to Streamlit Secrets.">>
ClientError == <<"MongoClient: invalid URI or DNS failure">>
QueryError == <<"aggregate: connection or query failure">>

----------------------------------------------------------------------------
(* The memoization decorators *)

\* st.cache_resource key of get_collection(uri, db_name, coll_name)
resource_key(uri, db_name, coll_name) == <<uri, db_name, coll_name>>

\* st.cache_data key of load_orders(_coll): a parameter whose name starts
\* with an underscore is left out of the key
data_key(c) == <<>>

DataKeys == {<<>>} \cup {<<h>> : h \in Handles}

\* a cache that never hits
lookup_miss(cache, key) == None

\* cache lookup: the stored value, or None on a miss
lookup(cache, key) == cache[key]

store(cache, key, value) == [cache EXCEPT ![key] = Some(value)]

----------------------------------------------------------------------------
(* The script, one action per step *)

\* the end of a run (st.stop() or the last line): the script's variables go,
\* the rendered page and the reported exception stay
Discard ==
    /\ coll' = None /\ docs' = <<>> /\ df' = <<>>
    /\ date_range' = <<>> /\ region' = {} /\ channel' = {} /\ loyalty' = {}
    /\ age' = {} /\ show_table' = FALSE /\ f' = <<>> /\ heat' = None
    /\ pc' = "stopped"

locals == <<coll, docs, df, widgets, f, heat>>

\* lines 10-21 and 82: a (re-)run starts, reads its configuration and
\* renders the title
StartRun ==
    /\ pc \in {"idle", "stopped"}
    /\ \E u \in URIs, d \in DBNames, c \in CollNames :
          /\ MONGO_URI' = u /\ DB_NAME' = d /\ COLL_NAME' = c
    /\ exc' = None
    /\ ui' = <<Title>>
    /\ pc' = "get_collection"
    /\ UNCHANGED <<database, caches, locals>>

\* the client is created before the connection string is looked at
GetCollection_check_late ==
    /\ pc = "get_collection"
    /\ LET key == resource_key(MONGO_URI, DB_NAME, COLL_NAME)
       IN /\ attempted' = attempted \cup {key}
          /\ IF MONGO_URI = ""
             THEN /\ exc' = Some(UriNotSet)
                  /\ pc' = "except"
                  /\ UNCHANGED <<cache_resource, opened, coll>>
             ELSE /\ cache_resource[key] = None
                  /\ opened[key] < MaxOpens
                  /\ opened' = [opened EXCEPT ![key] = @ + 1]
                  /\ cache_resource' = [cache_resource EXCEPT ![key] =
                                          Some([key |-> key, id |-> opened[key] + 1])]
                  /\ coll' = cache_resource'[key]
                  /\ pc' = "load_orders"
                  /\ UNCHANGED exc
    /\ UNCHANGED <<config, database, cache_data, loaded, lastLoadQueried,
                   docs, df, ui, widgets, f, heat>>

\* lines 23-29, called at line 85
GetCollection ==
    /\ pc = "get_collection"
    /\ LET key == resource_key(MONGO_URI, DB_NAME, COLL_NAME)
           hit == lookup(cache_resource, key)
       IN IF hit /= None
          THEN /\ coll' = hit
               /\ pc' = "load_orders"
               /\ UNCHANGED <<cache_resource, attempted, opened, exc>>
          ELSE IF MONGO_URI = ""
          THEN /\ exc' = Some(UriNotSet)
               /\ pc' = "except"
               /\ UNCHANGED <<cache_resource, attempted, opened, coll>>
          ELSE /\ attempted' = attempted \cup {key}
               /\ \/ /\ exc' = Some(ClientError)
                     /\ pc' = "except"
                     /\ UNCHANGED <<cache_resource, opened, coll>>
                  \/ /\ opened[key] < MaxOpens
                     /\ opened' = [opened EXCEPT ![key] = @ + 1]
                     /\ LET h == [key |-> key, id |-> opened[key] + 1]
                        IN /\ cache_resource' = store(cache_resource, key, h)
                           /\ coll' = Some(h)
                     /\ pc' = "load_orders"
                     /\ UNCHANGED exc
    /\ UNCHANGED <<config, database, cache_data, loaded, lastLoadQueried,
                   docs, df, ui, widgets, f, heat>>

\* lines 31-80, called at line 86
LoadOrders ==
    /\ pc = "load_orders"
    /\ LET key == data_key(coll[1])
           hit == lookup(cache_data, key)
       IN IF hit /= None
          THEN /\ df' = hit[1]
               /\ lastLoadQueried' = FALSE
               /\ pc' = "check_empty"
               /\ UNCHANGED <<cache_data, loaded, docs, exc>>
          ELSE \/ /\ exc' = Some(QueryError)
                  /\ pc' = "except"
                  /\ UNCHANGED <<cache_data, loaded, lastLoadQueried, docs, df>>
               \/ /\ docs' = database[coll[1].key]
                  /\ df' = load_orders(docs')
                  /\ cache_data' = store(cache_data, key, df')
                  /\ loaded' = loaded \cup {coll[1]}
                  /\ lastLoadQueried' = TRUE
                  /\ pc' = "check_empty"
                  /\ UNCHANGED exc
    /\ UNCHANGED <<config, database, cache_resource, attempted, opened, coll,
                   ui, widgets, f, heat>>

\* the error is shown but the run goes on
ExceptHandler_no_stop ==
    /\ pc = "except"
    /\ ui' = Append(ui, ErrorBox(exc[1]))
    /\ pc' = "check_empty"
    /\ UNCHANGED <<config, database, caches, exc, locals>>

\* lines 87-89
ExceptHandler ==
    /\ pc = "except"
    /\ ui' = Append(ui, ErrorBox(exc[1]))
    /\ Discard
    /\ UNCHANGED <<config, database, caches, exc>>

\* the warning is shown but the run goes on
EmptyCheck_no_stop ==
    /\ pc = "check_empty"
    /\ ui' = IF empty(df) THEN Append(ui, WarningBox) ELSE ui
    /\ pc' = "sidebar"
    /\ UNCHANGED <<config, database, caches, exc, locals>>

\* lines 91-93
EmptyCheck ==
    /\ pc = "check_empty"
    /\ IF empty(df)
       THEN /\ ui' = Append(ui, WarningBox)
            /\ Discard
       ELSE /\ pc' = "sidebar"
            /\ UNCHANGED <<ui, locals>>
    /\ UNCHANGED <<config, database, caches, exc>>

\* lines 95-104: the widgets; the date picker is bounded to the observed
\* days and hands back one date while the user is still picking the second
Sidebar ==
    /\ pc = "sidebar"
    /\ LET days == {date_of(t) : t \in unique(df, "purchase_ts")}
       IN IF days = {}
          THEN /\ ui' = Append(ui, ExceptionBox(<<"date of NaT">>))
               /\ Discard
          ELSE /\ \E a \in SetMin(days)..SetMax(days) :
                     \/ date_range' = <<a>>
                     \/ \E b \in a..SetMax(days) : date_range' = <<a, b>>
               /\ region' \in SUBSET unique(df, "region")
               /\ channel' \in SUBSET unique(df, "channel")
               /\ loyalty' \in SUBSET {TRUE, FALSE}
               /\ age' \in SUBSET unique(df, "age_band")
               /\ show_table' \in BOOLEAN
               /\ ui' = Append(ui, Filters)
               /\ pc' = "filter"
               /\ UNCHANGED <<coll, docs, df, f, heat>>
    /\ UNCHANGED <<config, database, caches, exc>>

\* lines 106-115
ApplyFilter ==
    /\ pc = "filter"
    /\ IF Len(date_range) < 2
       THEN /\ ui' = Append(ui, ExceptionBox(<<"IndexError">>))
            /\ Discard
       ELSE /\ f' = select(df, date_range, region, channel, loyalty, age)
            /\ pc' = "charts"
            /\ UNCHANGED <<ui, coll, docs, df, widgets, heat>>
    /\ UNCHANGED <<config, database, caches, exc>>

\* lines 117-147
RenderCharts ==
    /\ pc = "charts"
    /\ ui' = ui \o <<Metrics, Charts>>
    /\ pc' = "heat"
    /\ UNCHANGED <<config, database, caches, exc, locals>>

\* lines 149-154
HeatTable ==
    /\ pc = "heat"
    /\ heat' = Some(heat_table(f))
    /\ ui' = Append(ui, HeatBox)
    /\ pc' = "raw"
    /\ UNCHANGED <<config, database, caches, exc, coll, docs, df, widgets, f>>

\* lines 156-158
RawTable ==
    /\ pc = "raw"
    /\ ui' = IF show_table THEN Append(ui, RawBox) ELSE ui
    /\ Discard
    /\ UNCHANGED <<config, database, caches, exc>>

----------------------------------------------------------------------------
(* Documents a collection may hold *)

SeqsUpTo(S, n) == UNION {[1..k -> S] : k \in 0..n}

Stamp(t) == [ok |-> TRUE, t |-> t]
BadStamp == [ok |-> FALSE, t |-> 0]

BaseDoc == [ purchase_date |-> "2024-01-01", purchase_time |-> "00:00:00",
             payment_method |-> "card", coupon_used |-> FALSE,
             discount_pct |-> 10, subtotal |-> 90, discount_amount |-> 10,
             tax_amount |-> 5, shipping_amount |-> 5 ]

MkDoc(ts, wd, hr, st, ch, cu, tot, its) ==
    BaseDoc @@ Opt("purchase_ts", ts) @@ Opt("weekday", wd) @@ Opt("hour", hr)
            @@ Opt("store", st) @@ Opt("channel", ch) @@ Opt("customer", cu)
            @@ Opt("total_amount", tot) @@ Opt("items", its)

\* the database gives every document its _id
WithIds(ds) == [i \in 1..Len(ds) |-> ds[i] @@ ("_id" :> i)]

Store(city, reg) == Opt("store_city", city) @@ Opt("region", reg)
Customer(loy, ag) == Opt("loyalty_member", loy) @@ Opt("age_band", ag)
Item(q, cat) == Opt("quantity", q) @@ Opt("category", cat)

LastSecond == SecondsPerDay - 1

\* two orders on consecutive days, the first with three line items
DatasetA ==
    WithIds(<<
      MkDoc(Some(Stamp(0)), Some("Monday"), Some(9),
            Some(Store(Some("Boston"), Some("East"))), Some("Online"),
            Some(Customer(Some(TRUE), None)), Some(100),
            Some(<<Item(Some(1), Some(Shoes)), Item(Some(1), Some(Shoes)),
                   Item(Some(2), Some(Hats))>>)),
      MkDoc(Some(Stamp(SecondsPerDay + LastSecond)), Some("Tuesday"), Some(23),
            Some(Store(Some("Denver"), Some("West"))), Some("Online"),
            None, Some(200), None) >>)

\* one order whose timestamp does not parse
DatasetB ==
    WithIds(<<
      MkDoc(Some(BadStamp), Some("Monday"), Some(9), None, Some("Online"),
            None, Some(50), Some(<<Item(None, None)>>)) >>)

Datasets == {<<>>, DatasetA, DatasetB}

----------------------------------------------------------------------------
(* The process from its start *)

NoCaches ==
    /\ cache_resource = [k \in ConnKeys |-> None]
    /\ cache_data = [k \in DataKeys |-> None]
    /\ attempted = {}
    /\ opened = [k \in ConnKeys |-> 0]
    /\ loaded = {}
    /\ lastLoadQueried = FALSE

NoLocals ==
    /\ coll = None /\ docs = <<>> /\ df = <<>> /\ exc = None
    /\ date_range = <<>> /\ region = {} /\ channel = {} /\ loyalty = {}
    /\ age = {} /\ show_table = FALSE /\ f = <<>> /\ heat = None

Init ==
    /\ MONGO_URI = "" /\ DB_NAME = "retail" /\ COLL_NAME = "orders"
    /\ database \in [OpenKeys -> Datasets]
    /\ NoCaches
    /\ NoLocals
    /\ ui = <<>>
    /\ pc = "idle"

Next ==
    \/ StartRun
    \/ GetCollection
    \/ LoadOrders
    \/ ExceptHandler
    \/ EmptyCheck
    \/ Sidebar
    \/ ApplyFilter
    \/ RenderCharts
    \/ HeatTable
    \/ RawTable

Spec == Init /\ [][Next]_vars

----------------------------------------------------------------------------
(* A run that has its collection handle and is about to load: the query    *)
(* result is drawn from many small documents, or one document with many    *)
(* line items                                                              *)

SmallItems == {Item(None, None), Item(Some(2), Some(Hats))}

SmallDocs ==
    { MkDoc(Some(Stamp(0)), Some("Monday"), Some(9), st, Some("Online"), cu,
            Some(100), its) :
        st \in {None, Some(Store(Some("Boston"), Some("East")))},
        cu \in {None, Some(Customer(Some(TRUE), Some("18-25")))},
        its \in {None} \cup {Some(x) : x \in SeqsUpTo(SmallItems, MaxDocItems)} }

Labels == {Hat, Hats, Shoes, apple}

BigItems == { Item(q, cat) : q \in {None, Some(2)},
                             cat \in {None} \cup {Some(l) : l \in Labels} }

BigDocs ==
    { MkDoc(ts, Some("Monday"), Some(9), None, Some("Online"), None, Some(100),
            Some(its)) :
        ts \in {None, Some(BadStamp), Some(Stamp(0))},
        its \in SeqsUpTo(BigItems, MaxItems) }

LoadPool == {WithIds(ds) : ds \in SeqsUpTo(SmallDocs, MaxDocs)}
            \cup {WithIds(<<d>>) : d \in BigDocs}

\* the caches after get_collection has handed out H0 for K0
Connected ==
    /\ MONGO_URI = K0[1] /\ DB_NAME = K0[2] /\ COLL_NAME = K0[3]
    /\ cache_resource = store([k \in ConnKeys |-> None], K0, H0)
    /\ attempted = {K0}
    /\ opened = [k \in ConnKeys |-> IF k = K0 THEN 1 ELSE 0]
    /\ coll = Some(H0)
    /\ exc = None

InitLoad ==
    /\ Connected
    /\ \E ds \in LoadPool : database = [k \in OpenKeys |-> IF k = K0 THEN ds ELSE <<>>]
    /\ cache_data = [k \in DataKeys |-> None]
    /\ loaded = {}
    /\ lastLoadQueried = FALSE
    /\ docs = <<>> /\ df = <<>>
    /\ date_range = <<>> /\ region = {} /\ channel = {} /\ loyalty = {}
    /\ age = {} /\ show_table = FALSE /\ f = <<>> /\ heat = None
    /\ ui = <<Title>>
    /\ pc = "load_orders"

NextLoad ==
    \/ LoadOrders
    \/ ExceptHandler
    \/ EmptyCheck

SpecLoad == InitLoad /\ [][NextLoad]_vars

----------------------------------------------------------------------------
(* A run that has loaded a non-empty dataset and is about to draw the      *)
(* sidebar: one order drawn over every timestamp and category value, alone *)
(* or after orders on the first and the last day                           *)

Stamps == {d * SecondsPerDay + s : d \in 0..MaxDay, s \in {0, LastSecond}}

ProbeDocs ==
    { MkDoc(ts, Some("Monday"), Some(9), Some(Store(Some("Boston"), reg)), ch,
            Some(Customer(loy, ag)), Some(100), None) :
        ts \in {None} \cup {Some(Stamp(t)) : t \in Stamps},
        reg \in {None, Some("East"), Some("West")},
        ch \in {None, Some("Online")},
        loy \in {None, Some(TRUE), Some(FALSE)},
        ag \in {None, Some("18-25")} }

Early == MkDoc(Some(Stamp(LastSecond)), Some("Monday"), Some(23),
               Some(Store(Some("Boston"), Some("East"))), Some("Online"),
               Some(Customer(Some(TRUE), Some("18-25"))), Some(100), None)

Late == MkDoc(Some(Stamp(MaxDay * SecondsPerDay)), Some("Tuesday"), Some(0),
              Some(Store(Some("Denver"), Some("West"))), None,
              Some(Customer(Some(FALSE), None)), Some(200), None)

Unstamped == MkDoc(None, Some("Tuesday"), Some(0),
                   Some(Store(Some("Denver"), Some("West"))), Some("Online"),
                   Some(Customer(Some(FALSE), Some("18-25"))), Some(200), None)

Contexts == {<<>>, <<Early, Late>>, <<Early, Late, Unstamped>>}

FilterPool == {WithIds(ctx \o <<d>>) : ctx \in Contexts, d \in ProbeDocs}

\* the caches after load_orders has run its query for H0
LoadedFrom(ds) ==
    /\ Connected
    /\ database = [k \in OpenKeys |-> IF k = K0 THEN ds ELSE <<>>]
    /\ cache_data = store([k \in DataKeys |-> None], data_key(H0), load_orders(ds))
    /\ loaded = {H0}
    /\ lastLoadQueried = TRUE
    /\ docs = ds
    /\ df = load_orders(ds)

InitFilter ==
    /\ \E ds \in FilterPool : LoadedFrom(ds)
    /\ date_range = <<>> /\ region = {} /\ channel = {} /\ loyalty = {}
    /\ age = {} /\ show_table = FALSE /\ f = <<>> /\ heat = None
    /\ ui = <<Title>>
    /\ pc = "sidebar"

NextFilter ==
    \/ Sidebar
    \/ ApplyFilter

SpecFilter == InitFilter /\ [][NextFilter]_vars

----------------------------------------------------------------------------
(* A run that has filtered and drawn its charts and is about to draw the   *)
(* weekday/hour table                                                      *)

HeatDocs ==
    { MkDoc(Some(Stamp(0)), wd, hr, None, Some("Online"), None, tot, None) :
        wd \in {None, Some("Monday"), Some("Tuesday"), Some("Mon")},
        hr \in {None, Some(9), Some(23)},
        tot \in {None, Some(100), Some(200)} }

HeatPool == {WithIds(ds) : ds \in SeqsUpTo(HeatDocs, MaxHeatRows) \ {<<>>}}

InitHeat ==
    /\ \E ds \in HeatPool : LoadedFrom(ds)
    /\ date_range = <<0, 0>> /\ region = {} /\ channel = {}
    /\ loyalty \in {{}, {TRUE}}
    /\ age = {} /\ show_table \in BOOLEAN
    /\ f = select(df, date_range, region, channel, loyalty, age)
    /\ heat = None
    /\ ui = <<Title, Filters, Metrics, Charts>>
    /\ pc = "heat"

NextHeat ==
    \/ HeatTable
    \/ RawTable

SpecHeat == InitHeat /\ [][NextHeat]_vars

----------------------------------------------------------------------------
(* Properties *)

\* load_orders has run its query in this run and the script still holds
\* the result
QueryLoaded == lastLoadQueried /\ pc \in {"check_empty", "sidebar"}

\* the filter has been applied in this run
Filtered == pc = "charts"

Rows(frame) == {frame[i] : i \in 1..Len(frame)}

DayStart(d) == d * 86400
DayEnd(d) == d * 86400 + 86399

\* the row's timestamp lies on one of the days start_date..end_date
InDays(r) ==
    /\ r.purchase_ts /= None
    /\ DayStart(date_range[1]) <= r.purchase_ts[1]
    /\ r.purchase_ts[1] <= DayEnd(date_range[2])

NoOptionalFilter == region = {} /\ channel = {} /\ loyalty = {} /\ age = {}

Allowed(cell, chosen) == chosen = {} \/ (cell /= None /\ cell[1] \in chosen)

Passes(r) ==
    /\ InDays(r)
    /\ Allowed(r.region, region)
    /\ Allowed(r.channel, channel)
    /\ Allowed(r.loyalty_member, loyalty)
    /\ Allowed(r.age_band, age)

\* C1: for every filtered subset the weekday/hour table has the seven rows
\* Monday..Sunday in that order, and every cell of a weekday and hour with
\* no matching order holds 0, not null.
C1_HeatmapSevenRowsZeroFilled ==
    heat /= None =>
        /\ heat[1].index = <<"Monday", "Tuesday", "Wednesday", "Thursday",
                             "Friday", "Saturday", "Sunday">>
        /\ \A w \in Range(heat[1].index) : \A h \in heat[1].columns :
              /\ heat[1].cell[w][h] /= None
              /\ (~ \E r \in Rows(f) : r.weekday = Some(w) /\ r.hour = Some(h))
                    => heat[1].cell[w][h] = Some(0)

\* C2: load_orders is memoized per collection handle: the dataset a call
\* returns is the data of the handle it was called with, and a call answered
\* from the cache is a call with a handle that was loaded before.
C2_MemoizedPerHandle ==
    pc = "check_empty" =>
        /\ df = load_orders(database[coll[1].key])
        /\ (~lastLoadQueried => coll[1] \in loaded)

\* C3: the date filter keeps a row exactly when its timestamp lies between
\* start_date 00:00:00 and end_date 23:59:59: a row at end_date 23:59:59 is
\* kept, a row at (end_date+1) 00:00:00 and a row with a null timestamp are
\* not, whatever the date range.
C3_DateRangeInclusive ==
    Filtered =>
        \A r \in Rows(df) :
            /\ r \in Rows(f) => InDays(r)
            /\ (NoOptionalFilter /\ InDays(r)) => r \in Rows(f)
            /\ (NoOptionalFilter /\ r.purchase_ts = Some(DayEnd(date_range[2])))
                  => r \in Rows(f)
            /\ r.purchase_ts = Some(DayStart(date_range[2] + 1)) => r \notin Rows(f)
            /\ r.purchase_ts = None => r \notin Rows(f)

C3_Witness ==
    /\ Filtered
    /\ NoOptionalFilter
    /\ \E r \in Rows(f) : r.purchase_ts = Some(DayEnd(date_range[2]))
    /\ \E r \in Rows(df) \ Rows(f) : r.purchase_ts = Some(DayStart(date_range[2] + 1))
    /\ \E r \in Rows(df) \ Rows(f) : r.purchase_ts = None

\* C4: when get_collection or the query fails, the run shows an error that
\* carries the failure's description and halts: the page holds the title and
\* the error and nothing else.
C4_FailureHalts ==
    /\ pc = "except" => (exc /= None /\ ui = <<Title>>)
    /\ exc /= None =>
          /\ pc \in {"except", "stopped"}
          /\ pc = "stopped" =>
                /\ Len(ui) = 2
                /\ ui[2].kind = "error"
                /\ ui[2].text = <<"Database connection failed: ">> \o exc[1]
    /\ \A i \in 1..Len(ui) : ui[i].kind = "error" => (exc /= None /\ i = 2)

C4_Witness ==
    /\ pc = "stopped"
    /\ exc = Some(QueryError)
    /\ ui = <<Title, ErrorBox(QueryError)>>
    /\ cache_resource[<<MONGO_URI, DB_NAME, COLL_NAME>>] /= None

\* C5: when the query returns no document, load_orders returns an empty
\* dataset and raises nothing, and the run shows a warning, which is no
\* error box, and halts with nothing but the title and the warning rendered.
C5_EmptyResultWarns ==
    [][ /\ (pc = "load_orders" /\ lastLoadQueried' /\ pc' = "check_empty"
               /\ Len(docs') = 0)
           => (empty(df') /\ exc' = None)
        /\ (pc = "check_empty" /\ empty(df))
           => /\ pc' = "stopped"
              /\ ui' = <<Title, WarningBox>>
              /\ \A i \in 1..Len(ui') : ui'[i].kind /= "error"
              /\ exc' = None ]_vars

C5_Witness ==
    /\ pc = "stopped"
    /\ lastLoadQueried
    /\ exc = None
    /\ ui = <<Title, WarningBox>>

\* C6: get_collection called with an empty connection string fails with the
\* configuration error before any client is created: no MongoClient call,
\* no opened connection, nothing cached.
C6_EmptyUriFailsFirst ==
    [][ (pc = "get_collection" /\ MONGO_URI = "")
           => /\ exc' = Some(UriNotSet)
              /\ pc' = "except"
              /\ attempted' = attempted
              /\ opened' = opened
              /\ cache_resource' = cache_resource
              /\ coll' = None ]_vars

C6_Witness ==
    /\ pc = "except"
    /\ MONGO_URI = ""
    /\ exc = Some(UriNotSet)
    /\ \A k \in attempted : k[1] /= ""
    /\ attempted /= {}

HasField(d, k) == k \in DOMAIN d

\* C7: flattening yields one row per document, in order, and a document
\* without store, customer or items sub-record gets null store fields, null
\* customer fields, num_items = 0 and an empty categories string.
C7_MissingSubRecordsDefault ==
    QueryLoaded =>
        /\ Len(df) = Len(docs)
        /\ exc = None
        /\ \A i \in 1..Len(docs) :
              /\ df[i].order_id = <<"str", docs[i]["_id"]>>
              /\ ~HasField(docs[i], "store")
                    => (df[i].store_city = None /\ df[i].region = None)
              /\ ~HasField(docs[i], "customer")
                    => (df[i].loyalty_member = None /\ df[i].age_band = None)
              /\ ~HasField(docs[i], "items")
                    => (df[i].num_items = 0 /\ df[i].categories = <<>>)

C7_Witness ==
    /\ QueryLoaded
    /\ Len(df) = 2
    /\ \E i \in 1..Len(docs) :
          /\ ~HasField(docs[i], "store")
          /\ ~HasField(docs[i], "customer")
          /\ ~HasField(docs[i], "items")
          /\ df[i].region = None /\ df[i].num_items = 0
    /\ \E i \in 1..Len(docs) :
          /\ HasField(docs[i], "store") /\ HasField(docs[i], "items")
          /\ df[i].region /= None /\ df[i].num_items > 0

RECURSIVE Split(_)
\* the pieces of a text between its commas
Split(s) ==
    IF \A i \in 1..Len(s) : s[i] /= 44 THEN <<s>>
    ELSE LET i == CHOOSE i \in 1..Len(s) : s[i] = 44 /\ \A j \in 1..(i - 1) : s[j] /= 44
         IN <<SubSeq(s, 1, i - 1)>> \o Split(SubSeq(s, i + 1, Len(s)))

RECURSIVE Before(_, _)
\* a comes strictly before b, letter by letter
Before(a, b) ==
    IF Len(b) = 0 THEN FALSE
    ELSE IF Len(a) = 0 THEN TRUE
    ELSE \/ Head(a) < Head(b)
         \/ Head(a) = Head(b) /\ Before(Tail(a), Tail(b))

CategoryLabels(d) ==
    IF HasField(d, "items")
    THEN {IF HasField(d["items"][j], "category") THEN d["items"][j]["category"]
          ELSE <<>> : j \in 1..Len(d["items"])}
    ELSE {}

CategoryList(d) ==
    IF HasField(d, "items")
    THEN [j \in 1..Len(d["items"]) |->
            IF HasField(d["items"][j], "category") THEN d["items"][j]["category"]
            ELSE <<>>]
    ELSE <<>>

HatsCommaShoes == <<72, 97, 116, 115, 44, 83, 104, 111, 101, 115>>

\* C8: the categories field is the set of the document's item category
\* labels (a missing one counted as the empty text), each once, in ascending
\* letter-by-letter order (code points: capitals before small letters),
\* joined with commas; items Shoes, Shoes, Hats give "Hats,Shoes".
C8_CategoriesSortedDeduped ==
    QueryLoaded =>
        \A i \in 1..Len(docs) :
            LET labels == CategoryLabels(docs[i])
                parts == Split(df[i].categories)
            IN /\ labels = {} => df[i].categories = <<>>
               /\ labels /= {} =>
                     /\ Range(parts) = labels
                     /\ \A a, b \in 1..Len(parts) : a < b => Before(parts[a], parts[b])
               /\ CategoryList(docs[i]) = <<Shoes, Shoes, Hats>>
                     => df[i].categories = HatsCommaShoes

C8_Witness ==
    /\ QueryLoaded
    /\ \E i \in 1..Len(docs) :
          /\ CategoryList(docs[i]) = <<Shoes, Shoes, Hats>>
          /\ df[i].categories = HatsCommaShoes

\* C9: the filtered subset is, in the dataset's order, exactly the rows in
\* the date range that every non-empty optional filter allows; with all
\* four optional filters empty it is exactly the rows in the date range.
C9_FiltersConjoined ==
    Filtered =>
        /\ Rows(f) = {r \in Rows(df) : Passes(r)}
        /\ Len(f) = Cardinality({i \in 1..Len(df) : Passes(df[i])})
        /\ \A a, b \in 1..Len(f) : a < b => f[a].order_id[2] < f[b].order_id[2]
        /\ NoOptionalFilter => Rows(f) = {r \in Rows(df) : InDays(r)}

C9_Witness ==
    /\ Filtered
    /\ region /= {} /\ loyalty /= {} /\ channel = {} /\ age = {}
    /\ \E r \in Rows(df) \ Rows(f) : InDays(r) /\ r.region /= None
    /\ \E r \in Rows(f) : r.channel = None /\ r.age_band = None
    /\ Len(f) >= 2

\* C10: over the re-runs of one process a connection is opened at most once
\* per (connection string, database, collection) triple, and every call
\* with that triple gets the handle opened then.
C10_ConnectOnce ==
    /\ \A k \in ConnKeys :
          /\ opened[k] <= 1
          /\ cache_resource[k] /= None =>
                (opened[k] = 1 /\ cache_resource[k] = Some([key |-> k, id |-> 1]))
    /\ coll /= None =>
          coll = Some([key |-> <<MONGO_URI, DB_NAME, COLL_NAME>>, id |-> 1])

C10_Witness ==
    /\ pc = "load_orders"
    /\ coll /= None
    /\ coll[1] \in loaded
    /\ opened[coll[1].key] = 1

====
